---- MODULE Spec2Model ----
(***************************************************************************)
(* Model of tabled's width module (src/src/width.rs): the MaxWidth cell    *)
(* option with its two modes (truncate with a filler, hard wrap), in both  *)
(* builds of the crate (without and with the "color" feature).             *)
(*                                                                         *)
(* A string is a sequence of code points; a code point is named by a       *)
(* one-element string.  "De" is a two-byte code point (Cyrillic De, as in  *)
(* the example data), "ESC" "[" "m" spell the three-byte SGR escape        *)
(* sequence ESC [ m, "LF" is the line break, every other code point is one *)
(* byte of ASCII.  str::len is the byte length, chars() the code points.   *)
(*                                                                         *)
(* ansi_str::AnsiStr::ansi_cut and ansi_split_at are calls into the        *)
(* ansi_str crate; they are modelled by the crate's documented contract:   *)
(* the index is a byte offset into the text with the escape sequences      *)
(* removed, escape sequences travel with the text around them, and an      *)
(* index inside a code point panics.                                       *)
(***************************************************************************)
EXTENDS Integers, Sequences, FiniteSets, TLC

\* ------------------------------------------------------------------ bounds
MaxTokens == 3
MaxW == 3
MaxFillerLen == 1
MaxApplies == 2

\* ------------------------------------------------- the documentation's data
\* "Hello World!!!" (examples/table_width.rs), "123456789" (width.rs doc)
HelloWorld ==
  <<"H","e","l","l","o"," ","W","o","r","l","d","!","!","!">>

Digits ==
  <<"1","2","3","4","5","6","7","8","9">>

\* MaxWidth::truncating(5, "...") of the doc example
DocWidth == 5

DocFiller ==
  <<".",".",".">>

\* ----------------------------------------------------------------- strings
Min(a, b) == IF a < b THEN a ELSE b

\* char::len_utf8
len_utf8(c) == IF c = "De" THEN 2 ELSE 1

RECURSIVE SumLen(_, _)
\* .map(|c| c.len_utf8()).sum() over the first n code points of s
SumLen(s, n) == IF n = 0 THEN 0 ELSE SumLen(s, n - 1) + len_utf8(s[n])

\* str::len: the byte length
ByteLen(s) == SumLen(s, Len(s))

\* s.chars().take(width).collect()
Take(s, width) == SubSeq(s, 1, Min(width, Len(s)))

\* results of an operation that may panic
Ok(v) == [panic |-> FALSE, val |-> v]

Panic == [panic |-> TRUE, val |-> <<>>]

\* ------------------------------------------------------- plain build: strip
strip_plain(s, width) == Ok(Take(s, width))

\* ------------------------------------------------------- plain build: split
\* the closure of flat_map: the code points emitted for (i, c), i from 0
SplitItem(i, c, width) ==
  IF i # 0 /\ i % width = 0 THEN <<"LF", c>> ELSE <<c>>

RECURSIVE SplitUpTo(_, _, _)
SplitUpTo(s, n, width) ==
  IF n = 0 THEN <<>>
  ELSE SplitUpTo(s, n - 1, width) \o SplitItem(n - 1, s[n], width)

\* i % width is evaluated for every i # 0; with width = 0 it panics
\* (remainder with a divisor of zero)
split_plain(s, width) ==
  IF width = 0 /\ Len(s) >= 2 THEN Panic
  ELSE IF width = 0 THEN Ok(s)
  ELSE Ok(SplitUpTo(s, Len(s), width))

\* ------------------------------------------------ color build: ansi_str
\* an escape sequence (ESC [ m) starts at code point i of s
IsEscapeAt(s, i) ==
  /\ i + 2 <= Len(s)
  /\ s[i] = "ESC" /\ s[i + 1] = "[" /\ s[i + 2] = "m"

RECURSIVE BlockEnd(_, _)
\* the last code point of the text block that starts at i (a text block is a
\* maximal run of code points between escape sequences)
BlockEnd(s, i) ==
  IF i = Len(s) \/ IsEscapeAt(s, i + 1) THEN i ELSE BlockEnd(s, i + 1)

\* byte offset b is on a code point boundary of text (str::get(..b) is Some)
IsCharBoundary(text, b) == \E n \in 0..Len(text) : SumLen(text, n) = b

\* the number of code points in the first b bytes of text
CharsInBytes(text, b) == CHOOSE n \in 0..Len(text) : SumLen(text, n) = b

RECURSIVE CutPoint(_, _, _, _)
\* The walk of ansi_cut(s, ..upper) and ansi_split_at(s, upper) over the
\* parsed string from code point i on, index being the byte offset of i in
\* the text without escape sequences: the number of code points of s that
\* the cut keeps, or a panic when upper is inside a code point.  Escape
\* sequences are copied but do not advance index; a bound at or past the end
\* of the text keeps everything.
CutPoint(s, i, index, upper) ==
  IF i > Len(s) THEN [panic |-> FALSE, at |-> Len(s)]
  ELSE IF IsEscapeAt(s, i) THEN CutPoint(s, i + 3, index, upper)
  ELSE LET j == BlockEnd(s, i)
           text == SubSeq(s, i, j)
           block_end == index + ByteLen(text)
       IN IF upper >= index /\ upper < block_end
          THEN IF IsCharBoundary(text, upper - index)
               THEN [panic |-> FALSE,
                     at |-> i - 1 + CharsInBytes(text, upper - index)]
               ELSE [panic |-> TRUE, at |-> 0]
          ELSE CutPoint(s, j + 1, block_end, upper)

\* ansi_str::AnsiStr::ansi_cut(s, ..upper)
ansi_cut(s, upper) ==
  LET p == CutPoint(s, 1, 0, upper)
  IN IF p.panic THEN Panic ELSE Ok(SubSeq(s, 1, p.at))

\* ansi_str::AnsiStr::ansi_split_at(s, mid)
ansi_split_at(s, mid) ==
  LET p == CutPoint(s, 1, 0, mid)
  IN IF p.panic THEN [panic |-> TRUE, lhs |-> <<>>, rhs |-> <<>>]
     ELSE [panic |-> FALSE,
           lhs |-> SubSeq(s, 1, p.at),
           rhs |-> SubSeq(s, p.at + 1, Len(s))]

\* -------------------------------------------------- color build: width.rs
to_byte_length(s, width) == SumLen(s, Min(width, Len(s)))

strip_color(s, width) == ansi_cut(s, to_byte_length(s, width))

RECURSIVE chunks(_, _)
\* the loop of chunks: the vector v of the pieces, or a panic
chunks(s, width) ==
  IF s = <<>> THEN Ok(<<>>)
  ELSE LET sp == ansi_split_at(s, to_byte_length(s, width))
       IN IF sp.panic THEN Panic
          ELSE LET rest == chunks(sp.rhs, width)
               IN IF rest.panic THEN Panic ELSE Ok(<<sp.lhs>> \o rest.val)

RECURSIVE JoinUpTo(_, _)
\* v[..n].join("\n")
JoinUpTo(v, n) ==
  IF n = 0 THEN <<>>
  ELSE IF n = 1 THEN v[1]
  ELSE JoinUpTo(v, n - 1) \o <<"LF">> \o v[n]

join(v) == JoinUpTo(v, Len(v))

split_color(s, width) ==
  IF width = 0 THEN Ok(s)
  ELSE LET v == chunks(s, width)
       IN IF v.panic THEN Panic ELSE Ok(join(v.val))

\* ------------------------------------------- strip and split of a build
\* color: the crate is built with the "color" feature
strip(feature_color, s, width) ==
  IF feature_color THEN strip_color(s, width) ELSE strip_plain(s, width)

split(feature_color, s, width) ==
  IF feature_color THEN split_color(s, width) ELSE split_plain(s, width)

\* ----------------------------------------------------------- the transform
\* MaxWidth::truncating(width, suffix)
truncating(width, suffix) ==
  [width |-> width, wrap |-> [kind |-> "Truncate", filler |-> suffix]]

\* MaxWidth::wrapping(width)
wrapping(width) ==
  [width |-> width, wrap |-> [kind |-> "Wrap", filler |-> <<>>]]

\* ---------------------------------------------------------------- the grid
\* Entity::Cell(row, column)
EntityCell(row, column) == <<row, column>>

\* Grid::get_cell_content
get_cell_content(cells, row, column) == cells[EntityCell(row, column)]

\* grid_set addressing the whole row of the entity (Entity::Row) instead of
\* the one cell
grid_set_row(g, entity, text) ==
  [cells |-> [e \in DOMAIN g.cells |->
                IF e[1] = entity[1] THEN text ELSE g.cells[e]],
   log |-> Append(g.log, [entity |-> entity, text |-> text])]

\* Grid::set(entity, Settings::new().text(text)) on a grid g = (cells, the
\* log of the set instructions it received)
grid_set(g, entity, text) ==
  [cells |-> [g.cells EXCEPT ![entity] = text],
   log |-> Append(g.log, [entity |-> entity, text |-> text])]

\* ------------------------------------------------------------- change_cell
\* truncate_changed with <= for <
truncate_changed_le(striped, original) ==
  ByteLen(striped) <= ByteLen(original)

\* striped_content.len() < content.len()
truncate_changed(striped, original) == ByteLen(striped) < ByteLen(original)

\* format_new_content with its two arguments in the other order
format_filler_first(striped, filler) == filler \o striped

\* format!("{}{}", striped_content, filler.as_ref())
format_new_content(striped, filler) == striped \o filler

\* wrap_changed with < for != (the test of the Truncate arm)
wrap_changed_lt(wrapped, original) == ByteLen(wrapped) < ByteLen(original)

\* wrapped_content.len() != content.len()
wrap_changed(wrapped, original) == ByteLen(wrapped) # ByteLen(original)

\* ------------------------------------------------------------ input bounds
Rows == {0}

Columns == {0, 1}

Cells == {EntityCell(r, c) : r \in Rows, c \in Columns}

\* the pieces the generated cell contents are built of: an ASCII letter, a
\* two-byte letter, an escape sequence
Tokens == {<<"a">>, <<"De">>, <<"ESC", "[", "m">>}

RECURSIVE Generated(_)
Generated(n) ==
  IF n = 0 THEN {<<>>}
  ELSE LET shorter == Generated(n - 1)
       IN shorter \cup {s \o t : s \in shorter, t \in Tokens}

Samples == {HelloWorld, Digits}

Dots(n) == [i \in 1..n |-> "."]

Fillers == {Dots(n) : n \in 0..MaxFillerLen} \cup {DocFiller}

Widths == 0..MaxW \cup {DocWidth}

Transforms ==
  {truncating(w, f) : w \in Widths, f \in Fillers}
    \cup {wrapping(w) : w \in Widths}

\* ------------------------------------------------------------------- state
VARIABLES
  color,            \* the build: TRUE with the "color" feature
  grid,             \* the grid's cells: Entity::Cell(row, column) -> content
  mw,               \* the MaxWidth value (self)
  call,             \* the (row, column) of the latest change_cell
  content,          \* change_cell's local: the content it read
  striped_content,  \* change_cell's local (Truncate arm)
  wrapped_content,  \* change_cell's local (Wrap arm)
  issued,           \* the grid.set instructions of the latest change_cell
  applied,          \* the number of change_cell calls so far
  panicked          \* a change_cell panicked: the process is gone

vars ==
  <<color, grid, mw, call, content, striped_content, wrapped_content,
    issued, applied, panicked>>

\* A grid of one row: column 0 holds a generated content, column 1 one of
\* the documentation's samples; a MaxWidth built by one of its constructors.
Init ==
  /\ color \in BOOLEAN
  /\ \E c \in Generated(MaxTokens), d \in Samples :
       grid = [e \in Cells |-> IF e = EntityCell(0, 0) THEN c ELSE d]
  /\ mw \in Transforms
  /\ call = EntityCell(0, 0)
  /\ content = <<>>
  /\ striped_content = <<>>
  /\ wrapped_content = <<>>
  /\ issued = <<>>
  /\ applied = 0
  /\ panicked = FALSE

\* the Wrap::Truncate(filler) arm of change_cell
ChangeCellTruncate(row, column) ==
  /\ ~panicked
  /\ applied < MaxApplies
  /\ mw.wrap.kind = "Truncate"
  /\ LET c == get_cell_content(grid, row, column)
         st == strip(color, c, mw.width)
         g == IF ~st.panic /\ truncate_changed(st.val, c)
              THEN grid_set([cells |-> grid, log |-> <<>>],
                            EntityCell(row, column),
                            format_new_content(st.val, mw.wrap.filler))
              ELSE [cells |-> grid, log |-> <<>>]
     IN /\ content' = c
        /\ striped_content' = st.val
        /\ panicked' = st.panic
        /\ grid' = g.cells
        /\ issued' = g.log
  /\ call' = <<row, column>>
  /\ applied' = applied + 1
  /\ UNCHANGED <<color, mw, wrapped_content>>

\* the Wrap::Wrap arm of change_cell
ChangeCellWrap(row, column) ==
  /\ ~panicked
  /\ applied < MaxApplies
  /\ mw.wrap.kind = "Wrap"
  /\ LET c == get_cell_content(grid, row, column)
         w == split(color, c, mw.width)
         g == IF ~w.panic /\ wrap_changed(w.val, c)
              THEN grid_set([cells |-> grid, log |-> <<>>],
                            EntityCell(row, column), w.val)
              ELSE [cells |-> grid, log |-> <<>>]
     IN /\ content' = c
        /\ wrapped_content' = w.val
        /\ panicked' = w.panic
        /\ grid' = g.cells
        /\ issued' = g.log
  /\ call' = <<row, column>>
  /\ applied' = applied + 1
  /\ UNCHANGED <<color, mw, striped_content>>

\* CellOption::change_cell(&mut self, grid, row, column)
change_cell(row, column) ==
  \/ ChangeCellTruncate(row, column)
  \/ ChangeCellWrap(row, column)

Next == \E row \in Rows, column \in Columns : change_cell(row, column)

Spec == Init /\ [][Next]_vars

\* ================================================================== claims
IsTruncate == mw.wrap.kind = "Truncate"

IsWrap == mw.wrap.kind = "Wrap"

\* a change_cell has run; call, content and the locals describe the latest
Called == applied > 0

\* the indexes of the code points of s that belong to an escape sequence
EscapeIndexes(s) ==
  {i \in 1..Len(s) : \E k \in 0..2 : i > k /\ IsEscapeAt(s, i - k)}

HasEscape(s) == EscapeIndexes(s) # {}

HasMultiByte(s) == \E i \in 1..Len(s) : len_utf8(s[i]) > 1

\* the number of code points of s outside its escape sequences
VisibleLen(s) == Len(s) - Cardinality(EscapeIndexes(s))

\* s with its escape sequences removed
RECURSIVE StripUpTo(_, _)
StripUpTo(s, n) ==
  IF n = 0 THEN <<>>
  ELSE IF n \in EscapeIndexes(s) THEN StripUpTo(s, n - 1)
  ELSE Append(StripUpTo(s, n - 1), s[n])

ansi_strip(s) == StripUpTo(s, Len(s))

\* C1: a truncation of a content of at most W code points completes, leaves
\* the cell equal to the content it read (no filler appended) and issues no
\* grid.set.
C1_WithinBudgetNoOp ==
  (Called /\ IsTruncate /\ Len(content) <= mw.width)
    => /\ ~panicked
       /\ grid[call] = content
       /\ issued = <<>>

C1_Witness ==
  /\ Called /\ IsTruncate /\ ~panicked
  /\ content # <<>> /\ Len(content) <= mw.width
  /\ mw.wrap.filler # <<>>
  /\ grid[call] = content /\ issued = <<>>

\* C2: a truncation of a content with more than W code points, more than W
\* of them outside escape sequences, completes and leaves the cell holding a
\* prefix of the content followed by the filler verbatim (W = 0 and an empty
\* filler included); the prefix is the first W code points of the content,
\* or, counting escape sequences as zero width, a prefix with exactly W
\* code points outside escape sequences.
C2_CutCarriesFiller ==
  (Called /\ IsTruncate /\ Len(content) > mw.width
     /\ VisibleLen(content) > mw.width)
    => /\ ~panicked
       /\ \E n \in 0..Len(content) :
            /\ n = mw.width \/ VisibleLen(Take(content, n)) = mw.width
            /\ grid[call] = Take(content, n) \o mw.wrap.filler

\* s without its line breaks
RECURSIVE DropLF(_)
DropLF(s) ==
  IF s = <<>> THEN <<>>
  ELSE IF Head(s) = "LF" THEN DropLF(Tail(s))
  ELSE <<Head(s)>> \o DropLF(Tail(s))

\* the content s in consecutive chunks of exactly W code points (the last
\* one shorter or equal), one line break between adjacent chunks, none at
\* the start or the end: position p is a line break when p is a multiple of
\* W + 1 and otherwise the next code point of s
WrapOf(s, W) ==
  [p \in 1..(Len(s) + (IF Len(s) = 0 THEN 0 ELSE (Len(s) - 1) \div W)) |->
     IF p % (W + 1) = 0 THEN "LF" ELSE s[p - (p \div (W + 1))]]

\* C3: for W > 0 the wrap completes and its result is the content in
\* consecutive chunks of W code points (all but the last exactly W) with one
\* line break between adjacent chunks and none at the start or end, so that
\* deleting the line breaks gives the content back; the W code points of a
\* chunk are counted either over all its code points or, escape sequences
\* being zero width, over those outside escape sequences.
C3_WrapBoundedLossless ==
  (Called /\ IsWrap /\ mw.width > 0)
    => /\ ~panicked
       /\ \/ wrapped_content = WrapOf(content, mw.width)
          \/ /\ ansi_strip(wrapped_content)
                  = WrapOf(ansi_strip(content), mw.width)
             /\ DropLF(wrapped_content) = DropLF(content)

\* C4: wrapping to width 0 completes in either build and returns the content
\* unchanged, so the cell is left untouched.
C4_WrapZeroNoOp ==
  (Called /\ IsWrap /\ mw.width = 0)
    => /\ ~panicked
       /\ wrapped_content = content
       /\ grid[call] = content
       /\ issued = <<>>

\* C5: when a truncation with len(filler) <= width has just been applied to
\* a cell, applying it again to the same cell completes and leaves the grid
\* as the first application left it.
C5_TruncateIdempotent ==
  [][(/\ Called /\ ~panicked /\ IsTruncate
      /\ Len(mw.wrap.filler) <= mw.width
      /\ applied' = applied + 1
      /\ call' = call)
       => (~panicked' /\ grid' = grid)]_vars

C5_Witness ==
  /\ applied = 2 /\ IsTruncate /\ ~panicked
  /\ mw.wrap.filler # <<>> /\ Len(mw.wrap.filler) <= mw.width
  /\ Len(content) > mw.width
  /\ issued # <<>>
  /\ grid[call] = content

\* C6: in the color build, for a content with escape sequences, the prefix
\* strip keeps has exactly min(N, visible length) code points outside escape
\* sequences, and every chunk of chunks has at most N of them.
C6_CutKeepsNVisible ==
  (Called /\ color /\ HasEscape(content))
    => /\ ~panicked
       /\ IsTruncate =>
            VisibleLen(striped_content)
              = Min(mw.width, VisibleLen(content))
       /\ (IsWrap /\ mw.width > 0) =>
            LET v == chunks(content, mw.width)
            IN /\ ~v.panic
               /\ \A k \in 1..Len(v.val) : VisibleLen(v.val[k]) <= mw.width

\* C7: in the color build, for a content mixing escape sequences and
\* multi-byte code points, the offset to_byte_length computes is on a code
\* point boundary of the text it is applied to (or at its end or past it),
\* and neither truncation nor wrap fails.
C7_BoundariesAligned ==
  (Called /\ color /\ HasEscape(content) /\ HasMultiByte(content)
     /\ (IsTruncate \/ mw.width > 0))
    => /\ ~panicked
       /\ LET offset == to_byte_length(content, mw.width)
              text == ansi_strip(content)
          IN offset >= ByteLen(text) \/ IsCharBoundary(text, offset)

\* C8: on a content without escape sequences the two builds agree: strip
\* gives the same string in both, and so does split, for the width of the
\* transform (0 included).
C8_BuildsAgreeOnPlainText ==
  (Called /\ ~HasEscape(content))
    => /\ IsTruncate =>
            strip(TRUE, content, mw.width) = strip(FALSE, content, mw.width)
       /\ IsWrap =>
            split(TRUE, content, mw.width) = split(FALSE, content, mw.width)

\* C9: a change_cell(grid, row, column) leaves every other cell as it was,
\* leaves the transform as it was, and issues at most one grid.set, which
\* addresses Entity::Cell(row, column).
C9_OnlyAddressedCell ==
  [][/\ \A e \in Cells : e # call' => grid'[e] = grid[e]
     /\ mw' = mw
     /\ Len(issued') <= 1
     /\ \A k \in 1..Len(issued') : issued'[k].entity = call']_vars

C9_Witness ==
  /\ applied = 2 /\ ~panicked
  /\ Len(issued) = 1
  /\ call = EntityCell(0, 1)
  /\ grid[call] = issued[1].text
  /\ grid[call] # content

\* C10 as stated: change_cell issues exactly one overwrite when the byte
\* length of the new content differs from the byte length of the content
\* read, and none when the two are equal.  The new content of a truncation
\* is the cut prefix plus the filler when strip cut something and the
\* content itself when it did not; the new content of a wrap is what split
\* returned.
C10_ChangeByNewLength ==
  (Called /\ ~panicked)
    => LET new == IF IsWrap THEN wrapped_content
                  ELSE IF striped_content = content THEN content
                  ELSE striped_content \o mw.wrap.filler
       IN IF ByteLen(new) # ByteLen(content)
          THEN Len(issued) = 1
          ELSE issued = <<>>

\* C10 amended: truncate overwrites exactly when strip returned a prefix
\* shorter in bytes than the content read (the filler does not count); wrap
\* overwrites exactly when split returned a string whose byte length differs
\* from that of the content read.  The overwrite, when there is one, is the
\* only one and carries the new content.
C10_ChangeByCutLength ==
  Called =>
    LET changed == IF IsTruncate
                   THEN ByteLen(striped_content) < ByteLen(content)
                   ELSE ByteLen(wrapped_content) # ByteLen(content)
        new == IF IsTruncate
               THEN striped_content \o mw.wrap.filler
               ELSE wrapped_content
    IN IF ~panicked /\ changed
       THEN issued = <<[entity |-> call, text |-> new]>> /\ grid[call] = new
       ELSE issued = <<>> /\ grid[call] = content

C10_Witness ==
  /\ Called /\ ~panicked /\ IsTruncate
  /\ Len(issued) = 1
  /\ ByteLen(grid[call]) = ByteLen(content)
  /\ grid[call] # content

====
